---- MODULE Spec2Model ----
(***************************************************************************)
(* Model of gen_ai_orchestrator/services/langchain/factories/              *)
(* langchain_factory.py: the provider-selection dispatchers.               *)
(*                                                                         *)
(* A Python object is a record [cls, provider, data]: its runtime class,   *)
(* its provider attribute and the rest of its fields.  A call of one of    *)
(* the module's functions is run as a frame: the frame carries the local   *)
(* bindings of the parameters (env), the log records emitted, the adapter  *)
(* constructors invoked, the module functions called, and how the call     *)
(* ended.  The module's only state besides the frames is the logger's      *)
(* output; the callers' view of the calls made so far is `history`.        *)
(***************************************************************************)
EXTENDS Naturals, Sequences, FiniteSets

VARIABLES log, history

vars == <<log, history>>

\* Number of calls a behaviour makes.
MaxCalls == 2

-----------------------------------------------------------------------------
\* Python values

\* Values of the fields a dispatcher never reads (api keys, models, scores...).
DataValues == {"d1", "d2"}

NoProvider == "-"

None == [cls |-> "NoneType", provider |-> NoProvider, data |-> "-"]

\* The setting classes imported by the module, one per supported provider.
SettingClasses ==
    {"OpenAILLMSetting", "AzureOpenAILLMSetting", "FakeLLMSetting",
     "OpenAIEMSetting", "AzureOpenAIEMSetting", "LangfuseObservabilitySetting"}

Settings ==
    {[cls |-> c, provider |-> NoProvider, data |-> d] :
        c \in SettingClasses, d \in DataValues} \cup {None}

\* Enum members; == on an enum member is identity of the member.
OPEN_SEARCH == "VectorStoreProvider.OPEN_SEARCH"

FLASHRANK_RERANK == "CompressorProvider.FLASHRANK_RERANK"

\* Provider values a caller can pass: the two enum members the module compares
\* against, and no provider ("None").
Providers == {OPEN_SEARCH, FLASHRANK_RERANK, "None"}

CompressorParams ==
    {[cls |-> "DocumentCompressorParams", provider |-> p, data |-> d] :
        p \in Providers, d \in DataValues} \cup {None}

EmbeddingFunctions == {"embeddings_1", "embeddings_2"}

IndexNames == {"index_1", "index_2"}

\* Members of ObservabilityTrace; .value is the member's value.
TraceNames ==
    {[cls |-> "ObservabilityTrace", value |-> v] : v \in {"trace_1", "trace_2"}}

\* isinstance(obj, cls); the classes of SettingClasses are unrelated leaf
\* classes and None is an instance of none of them.
isinstance(obj, cls) == obj.cls = cls

NoArgs == [none |-> TRUE]

-----------------------------------------------------------------------------
\* Frames

Begin(fn, args) ==
    [fn |-> fn, args |-> args, env |-> args, logs |-> <<>>,
     constructed |-> <<>>, called |-> <<>>,
     outcome |-> "running", value |-> [cls |-> "NoneType", kwargs |-> NoArgs]]

\* logger.info / logger.debug
Log(e, level, msg) ==
    [e EXCEPT !.logs = Append(@, [level |-> level, msg |-> msg])]

\* return Cls(**kwargs)
ReturnNew(e, cls, kwargs) ==
    [e EXCEPT !.constructed = Append(@, cls),
              !.outcome = "return",
              !.value = [cls |-> cls, kwargs |-> kwargs]]

\* raise Exc()
Raise(e, exc) ==
    [e EXCEPT !.outcome = "raise", !.value = [cls |-> exc, kwargs |-> NoArgs]]

-----------------------------------------------------------------------------
\* The dispatchers

\* get_llm_factory with the Azure branch building the OpenAI factory.
get_llm_factory_azure_as_openai(setting) ==
    LET e == Log(Begin("get_llm_factory", [setting |-> setting]),
                 "INFO", "Get LLM Factory for the given setting")
    IN  IF isinstance(e.env.setting, "OpenAILLMSetting")
        THEN ReturnNew(Log(e, "DEBUG", "LLM Factory - OpenAILLMFactory"),
                       "OpenAILLMFactory", [setting |-> e.env.setting])
        ELSE IF isinstance(e.env.setting, "AzureOpenAILLMSetting")
        THEN ReturnNew(Log(e, "DEBUG", "LLM Factory - AzureOpenAILLMFactory"),
                       "OpenAILLMFactory", [setting |-> e.env.setting])
        ELSE IF isinstance(e.env.setting, "FakeLLMSetting")
        THEN ReturnNew(Log(e, "DEBUG", "LLM Factory - FakeLLMFactory"),
                       "FakeLLMFactory", [setting |-> e.env.setting])
        ELSE Raise(e, "GenAIUnknownProviderSettingException")

\* get_llm_factory building every candidate factory before it picks one.
get_llm_factory_eager(setting) ==
    LET e == Log(Begin("get_llm_factory", [setting |-> setting]),
                 "INFO", "Get LLM Factory for the given setting")
        built == [e EXCEPT !.constructed =
                     <<"OpenAILLMFactory", "AzureOpenAILLMFactory",
                       "FakeLLMFactory">>]
        picked(cls) == [built EXCEPT !.outcome = "return",
                           !.value = [cls |-> cls,
                                      kwargs |-> [setting |-> e.env.setting]]]
    IN  IF isinstance(e.env.setting, "OpenAILLMSetting")
        THEN picked("OpenAILLMFactory")
        ELSE IF isinstance(e.env.setting, "AzureOpenAILLMSetting")
        THEN picked("AzureOpenAILLMFactory")
        ELSE IF isinstance(e.env.setting, "FakeLLMSetting")
        THEN picked("FakeLLMFactory")
        ELSE Raise(built, "GenAIUnknownProviderSettingException")

get_llm_factory(setting) ==
    LET e == Log(Begin("get_llm_factory", [setting |-> setting]),
                 "INFO", "Get LLM Factory for the given setting")
    IN  IF isinstance(e.env.setting, "OpenAILLMSetting")
        THEN ReturnNew(Log(e, "DEBUG", "LLM Factory - OpenAILLMFactory"),
                       "OpenAILLMFactory", [setting |-> e.env.setting])
        ELSE IF isinstance(e.env.setting, "AzureOpenAILLMSetting")
        THEN ReturnNew(Log(e, "DEBUG", "LLM Factory - AzureOpenAILLMFactory"),
                       "AzureOpenAILLMFactory", [setting |-> e.env.setting])
        ELSE IF isinstance(e.env.setting, "FakeLLMSetting")
        THEN ReturnNew(Log(e, "DEBUG", "LLM Factory - FakeLLMFactory"),
                       "FakeLLMFactory", [setting |-> e.env.setting])
        ELSE Raise(e, "GenAIUnknownProviderSettingException")

\* get_em_factory testing the LLM setting class in its first branch.
get_em_factory_llm_class(setting) ==
    LET e == Log(Begin("get_em_factory", [setting |-> setting]),
                 "INFO", "Get Embedding Model Factory for the given setting")
    IN  IF isinstance(e.env.setting, "OpenAILLMSetting")
        THEN ReturnNew(Log(e, "DEBUG", "EM Factory - OpenAIEMFactory"),
                       "OpenAIEMFactory", [setting |-> e.env.setting])
        ELSE IF isinstance(e.env.setting, "AzureOpenAIEMSetting")
        THEN ReturnNew(Log(e, "DEBUG", "EM Factory - AzureOpenAIEMFactory"),
                       "AzureOpenAIEMFactory", [setting |-> e.env.setting])
        ELSE Raise(e, "GenAIUnknownProviderSettingException")

\* get_em_factory over a registry of branches that is filled in only by the
\* first call, after that call has looked its setting up.
get_em_factory_lazy_registry(setting) ==
    LET e == Log(Begin("get_em_factory", [setting |-> setting]),
                 "INFO", "Get Embedding Model Factory for the given setting")
    IN  IF history = <<>>
        THEN Raise(e, "GenAIUnknownProviderSettingException")
        ELSE IF isinstance(e.env.setting, "OpenAIEMSetting")
        THEN ReturnNew(Log(e, "DEBUG", "EM Factory - OpenAIEMFactory"),
                       "OpenAIEMFactory", [setting |-> e.env.setting])
        ELSE IF isinstance(e.env.setting, "AzureOpenAIEMSetting")
        THEN ReturnNew(Log(e, "DEBUG", "EM Factory - AzureOpenAIEMFactory"),
                       "AzureOpenAIEMFactory", [setting |-> e.env.setting])
        ELSE Raise(e, "GenAIUnknownProviderSettingException")

get_em_factory(setting) ==
    LET e == Log(Begin("get_em_factory", [setting |-> setting]),
                 "INFO", "Get Embedding Model Factory for the given setting")
    IN  IF isinstance(e.env.setting, "OpenAIEMSetting")
        THEN ReturnNew(Log(e, "DEBUG", "EM Factory - OpenAIEMFactory"),
                       "OpenAIEMFactory", [setting |-> e.env.setting])
        ELSE IF isinstance(e.env.setting, "AzureOpenAIEMSetting")
        THEN ReturnNew(Log(e, "DEBUG", "EM Factory - AzureOpenAIEMFactory"),
                       "AzureOpenAIEMFactory", [setting |-> e.env.setting])
        ELSE Raise(e, "GenAIUnknownProviderSettingException")

\* get_vector_store_factory raising the settings' exception.
get_vector_store_factory_setting_exception(vector_store_provider, embedding_function, index_name) ==
    LET e == Log(Begin("get_vector_store_factory",
                       [vector_store_provider |-> vector_store_provider,
                        embedding_function |-> embedding_function,
                        index_name |-> index_name]),
                 "INFO", "Get Vector Store Factory for the given provider")
    IN  IF OPEN_SEARCH = e.env.vector_store_provider
        THEN ReturnNew(Log(e, "DEBUG", "Vector Store Factory - OpenSearchFactory"),
                       "OpenSearchFactory",
                       [embedding_function |-> e.env.embedding_function,
                        index_name |-> e.env.index_name])
        ELSE Raise(e, "GenAIUnknownProviderSettingException")

\* get_vector_store_factory testing that a provider is given, not which.
get_vector_store_factory_any_provider(vector_store_provider, embedding_function, index_name) ==
    LET e == Log(Begin("get_vector_store_factory",
                       [vector_store_provider |-> vector_store_provider,
                        embedding_function |-> embedding_function,
                        index_name |-> index_name]),
                 "INFO", "Get Vector Store Factory for the given provider")
    IN  IF e.env.vector_store_provider # "None"
        THEN ReturnNew(Log(e, "DEBUG", "Vector Store Factory - OpenSearchFactory"),
                       "OpenSearchFactory",
                       [embedding_function |-> e.env.embedding_function,
                        index_name |-> e.env.index_name])
        ELSE Raise(e, "VectorStoreUnknownException")

get_vector_store_factory(vector_store_provider, embedding_function, index_name) ==
    LET e == Log(Begin("get_vector_store_factory",
                       [vector_store_provider |-> vector_store_provider,
                        embedding_function |-> embedding_function,
                        index_name |-> index_name]),
                 "INFO", "Get Vector Store Factory for the given provider")
    IN  IF OPEN_SEARCH = e.env.vector_store_provider
        THEN ReturnNew(Log(e, "DEBUG", "Vector Store Factory - OpenSearchFactory"),
                       "OpenSearchFactory",
                       [embedding_function |-> e.env.embedding_function,
                        index_name |-> e.env.index_name])
        ELSE Raise(e, "VectorStoreUnknownException")

\* get_callback_handler_factory accepting every setting that is not None.
get_callback_handler_factory_any_setting(setting) ==
    LET e == Log(Begin("get_callback_handler_factory", [setting |-> setting]),
                 "INFO", "Get Observability Factory for the given setting")
    IN  IF e.env.setting # None
        THEN ReturnNew(Log(e, "DEBUG",
                           "Observability Factory - LangfuseCallbackHandlerFactory"),
                       "LangfuseCallbackHandlerFactory",
                       [setting |-> e.env.setting])
        ELSE Raise(e, "GenAIUnknownObservabilityProviderSettingException")

get_callback_handler_factory(setting) ==
    LET e == Log(Begin("get_callback_handler_factory", [setting |-> setting]),
                 "INFO", "Get Observability Factory for the given setting")
    IN  IF isinstance(e.env.setting, "LangfuseObservabilitySetting")
        THEN ReturnNew(Log(e, "DEBUG",
                           "Observability Factory - LangfuseCallbackHandlerFactory"),
                       "LangfuseCallbackHandlerFactory",
                       [setting |-> e.env.setting])
        ELSE Raise(e, "GenAIUnknownObservabilityProviderSettingException")

\* The caller's frame after a call of another function of the module ended
\* as `sub`: its logs, constructor invocations and calls happened inside e.
After(e, sub) ==
    [e EXCEPT !.logs = @ \o sub.logs,
              !.constructed = @ \o sub.constructed,
              !.called = (@ \o <<sub.fn>>) \o sub.called]

\* obj.name(**kwargs) of a method defined outside this module: the value is
\* whatever that method produces for this receiver and these arguments.
MethodResult(obj, name, kwargs) ==
    [cls |-> name, kwargs |-> [self |-> obj, args |-> kwargs]]

\* create_observability_callback_handler answering None when the factory
\* lookup raises.
create_observability_callback_handler_fallback(observability_setting, trace_name) ==
    LET e == Begin("create_observability_callback_handler",
                   [observability_setting |-> observability_setting,
                    trace_name |-> trace_name])
    IN  IF e.env.observability_setting # None
        THEN LET sub == get_callback_handler_factory(e.env.observability_setting)
                 e1 == After(e, sub)
             IN  IF sub.outcome = "raise"
                 THEN [e1 EXCEPT !.outcome = "return"]
                 ELSE [e1 EXCEPT !.outcome = "return",
                                 !.value = MethodResult(sub.value,
                                     "get_callback_handler",
                                     [trace_name |-> e.env.trace_name.value])]
        ELSE [e EXCEPT !.outcome = "return"]

create_observability_callback_handler(observability_setting, trace_name) ==
    LET e == Begin("create_observability_callback_handler",
                   [observability_setting |-> observability_setting,
                    trace_name |-> trace_name])
    IN  IF e.env.observability_setting # None
        THEN LET sub == get_callback_handler_factory(e.env.observability_setting)
                 e1 == After(e, sub)
             IN  IF sub.outcome = "raise"
                 THEN [e1 EXCEPT !.outcome = "raise", !.value = sub.value]
                 ELSE [e1 EXCEPT !.outcome = "return",
                                 !.value = MethodResult(sub.value,
                                     "get_callback_handler",
                                     [trace_name |-> e.env.trace_name.value])]
        ELSE [e EXCEPT !.outcome = "return"]

\* get_compressor_factory deciding on another field of param as well.
get_compressor_factory_reads_data(param) ==
    LET e == Log(Begin("get_compressor_factory", [param |-> param]),
                 "INFO", "Get Langchain Factory for the given provider")
    IN  IF e.env.param = None
        THEN Raise(e, "AttributeError")
        ELSE IF e.env.param.provider = FLASHRANK_RERANK /\ e.env.param.data = "d1"
        THEN ReturnNew(e, "FlashrankRerankCompressorFactory",
                       [param |-> e.env.param])
        ELSE Raise(e, "CompressorUnknownException")

\* get_compressor_factory overwriting a field of param before it builds.
get_compressor_factory_overwrites(param) ==
    LET e  == Log(Begin("get_compressor_factory", [param |-> param]),
                  "INFO", "Get Langchain Factory for the given provider")
        e1 == [e EXCEPT !.env.param.data = "d1"]
    IN  IF e.env.param = None
        THEN Raise(e, "AttributeError")
        ELSE IF e1.env.param.provider = FLASHRANK_RERANK
        THEN ReturnNew(e1, "FlashrankRerankCompressorFactory",
                       [param |-> e1.env.param])
        ELSE Raise(e1, "CompressorUnknownException")

get_compressor_factory(param) ==
    LET e == Log(Begin("get_compressor_factory", [param |-> param]),
                 "INFO", "Get Langchain Factory for the given provider")
    IN  IF e.env.param = None
        THEN Raise(e, "AttributeError")
        ELSE IF e.env.param.provider = FLASHRANK_RERANK
        THEN ReturnNew(e, "FlashrankRerankCompressorFactory",
                       [param |-> e.env.param])
        ELSE Raise(e, "CompressorUnknownException")

-----------------------------------------------------------------------------
\* The calls a program makes

\* One call ends: its caller holds the frame's outcome and the logger has
\* written the frame's records.
Done(r) ==
    /\ history' = Append(history, r)
    /\ log' = log \o r.logs

Call_get_llm_factory ==
    /\ Len(history) < MaxCalls
    /\ \E s \in Settings : Done(get_llm_factory(s))

Call_get_em_factory ==
    /\ Len(history) < MaxCalls
    /\ \E s \in Settings : Done(get_em_factory(s))

Call_get_vector_store_factory ==
    /\ Len(history) < MaxCalls
    /\ \E p \in Providers, f \in EmbeddingFunctions, n \in IndexNames :
          Done(get_vector_store_factory(p, f, n))

Call_get_callback_handler_factory ==
    /\ Len(history) < MaxCalls
    /\ \E s \in Settings : Done(get_callback_handler_factory(s))

Call_create_observability_callback_handler ==
    /\ Len(history) < MaxCalls
    /\ \E s \in Settings, t \in TraceNames :
          Done(create_observability_callback_handler(s, t))

Call_get_compressor_factory ==
    /\ Len(history) < MaxCalls
    /\ \E p \in CompressorParams : Done(get_compressor_factory(p))

Init ==
    /\ log = <<>>
    /\ history = <<>>

Next ==
    \/ Call_get_llm_factory
    \/ Call_get_em_factory
    \/ Call_get_vector_store_factory
    \/ Call_get_callback_handler_factory
    \/ Call_create_observability_callback_handler
    \/ Call_get_compressor_factory

Spec == Init /\ [][Next]_vars

-----------------------------------------------------------------------------
\* Properties.  They are stated over the calls made so far.

Dispatchers ==
    {"get_llm_factory", "get_em_factory", "get_vector_store_factory",
     "get_callback_handler_factory", "get_compressor_factory"}

UnknownExceptions ==
    {"GenAIUnknownProviderSettingException", "VectorStoreUnknownException",
     "GenAIUnknownObservabilityProviderSettingException",
     "CompressorUnknownException"}

CallsOf(fn) == {i \in 1..Len(history) : history[i].fn = fn}

DispatcherCalls == {i \in 1..Len(history) : history[i].fn \in Dispatchers}

Returned(c, cls) == c.outcome = "return" /\ c.value.cls = cls

Raised(c, exc) == c.outcome = "raise" /\ c.value.cls = exc

\* The call found no branch for its input.
Unmatched(c) == c.outcome = "raise" /\ c.value.cls \in UnknownExceptions

\* C1: every call of get_llm_factory ends in one of four ways: an
\* OpenAILLMSetting yields an OpenAILLMFactory, an AzureOpenAILLMSetting an
\* AzureOpenAILLMFactory, a FakeLLMSetting a FakeLLMFactory, and any other
\* setting raises GenAIUnknownProviderSettingException.
C1_LLMDispatchTotal ==
    \A i \in CallsOf("get_llm_factory") :
        LET c == history[i]
            s == c.args.setting
        IN  /\ c.outcome \in {"return", "raise"}
            /\ s.cls = "OpenAILLMSetting" => Returned(c, "OpenAILLMFactory")
            /\ s.cls = "AzureOpenAILLMSetting"
                  => Returned(c, "AzureOpenAILLMFactory")
            /\ s.cls = "FakeLLMSetting" => Returned(c, "FakeLLMFactory")
            /\ s.cls \notin {"OpenAILLMSetting", "AzureOpenAILLMSetting",
                             "FakeLLMSetting"}
                  => Raised(c, "GenAIUnknownProviderSettingException")

C1_Witness ==
    \E i, j \in CallsOf("get_llm_factory") :
        /\ history[i].args.setting.cls = "AzureOpenAILLMSetting"
        /\ Returned(history[i], "AzureOpenAILLMFactory")
        /\ history[j].args.setting.cls = "OpenAIEMSetting"
        /\ history[j].outcome = "raise"

\* C2: get_em_factory returns an OpenAIEMFactory for an OpenAIEMSetting, an
\* AzureOpenAIEMFactory for an AzureOpenAIEMSetting, and raises
\* GenAIUnknownProviderSettingException for every other setting (LLM,
\* observability and None included); it returns a factory for nothing else.
C2_EMDispatch ==
    \A i \in CallsOf("get_em_factory") :
        LET c == history[i]
            s == c.args.setting
        IN  /\ s.cls = "OpenAIEMSetting" => Returned(c, "OpenAIEMFactory")
            /\ s.cls = "AzureOpenAIEMSetting"
                  => Returned(c, "AzureOpenAIEMFactory")
            /\ s.cls \notin {"OpenAIEMSetting", "AzureOpenAIEMSetting"}
                  => Raised(c, "GenAIUnknownProviderSettingException")
            /\ c.outcome = "return"
                  => s.cls \in {"OpenAIEMSetting", "AzureOpenAIEMSetting"}

C2_Witness ==
    \E i, j \in CallsOf("get_em_factory") :
        /\ Returned(history[i], "OpenAIEMFactory")
        /\ history[j].args.setting = None
        /\ history[j].outcome = "raise"

\* C3 as claimed: two different dispatchers that each reject an unmatched
\* input raise different exception types.
C3_DistinctExceptions ==
    \A i, j \in DispatcherCalls :
        (/\ Unmatched(history[i])
         /\ Unmatched(history[j])
         /\ history[i].fn # history[j].fn)
            => history[i].value.cls # history[j].value.cls

\* C3 amended: two dispatchers that each reject an unmatched input raise the
\* same exception type exactly when they are the same dispatcher or are
\* get_llm_factory and get_em_factory, which share
\* GenAIUnknownProviderSettingException.
C3_DistinctExceptLLMAndEM ==
    \A i, j \in DispatcherCalls :
        (Unmatched(history[i]) /\ Unmatched(history[j]))
            => ((history[i].value.cls = history[j].value.cls)
                   <=> (\/ history[i].fn = history[j].fn
                        \/ {history[i].fn, history[j].fn}
                               = {"get_llm_factory", "get_em_factory"}))

C3_Witness ==
    \E i, j \in DispatcherCalls :
        /\ history[i].fn = "get_llm_factory"
        /\ history[j].fn = "get_em_factory"
        /\ Unmatched(history[i])
        /\ Unmatched(history[j])
        /\ history[i].value.cls = history[j].value.cls

\* C4: get_vector_store_factory returns an OpenSearchFactory built from the
\* embedding_function and index_name of the call when the provider is
\* VectorStoreProvider.OPEN_SEARCH, and raises VectorStoreUnknownException for
\* every other provider, whatever the other two arguments are.
C4_VectorStoreDispatch ==
    \A i \in CallsOf("get_vector_store_factory") :
        LET c == history[i]
        IN  IF c.args.vector_store_provider = OPEN_SEARCH
            THEN /\ Returned(c, "OpenSearchFactory")
                 /\ c.value.kwargs
                       = [embedding_function |-> c.args.embedding_function,
                          index_name |-> c.args.index_name]
            ELSE Raised(c, "VectorStoreUnknownException")

C4_Witness ==
    \E i, j \in CallsOf("get_vector_store_factory") :
        /\ Returned(history[i], "OpenSearchFactory")
        /\ history[i].args.index_name = "index_2"
        /\ history[j].args.vector_store_provider = FLASHRANK_RERANK
        /\ history[j].outcome = "raise"

\* A call of get_compressor_factory whose param has a provider to read.
CompressorCalls ==
    {i \in CallsOf("get_compressor_factory") : history[i].args.param # None}

\* C5: get_compressor_factory returns a FlashrankRerankCompressorFactory
\* built from param when param.provider is CompressorProvider.FLASHRANK_RERANK
\* and raises CompressorUnknownException for every other provider; two params
\* with the same provider end the same way whatever their other fields.
C5_CompressorDispatch ==
    /\ \A i \in CompressorCalls :
          LET c == history[i]
          IN  IF c.args.param.provider = FLASHRANK_RERANK
              THEN /\ Returned(c, "FlashrankRerankCompressorFactory")
                   /\ c.value.kwargs = [param |-> c.args.param]
              ELSE Raised(c, "CompressorUnknownException")
    /\ \A i, j \in CompressorCalls :
          history[i].args.param.provider = history[j].args.param.provider
              => /\ history[i].outcome = history[j].outcome
                 /\ history[i].value.cls = history[j].value.cls

C5_Witness ==
    \E i, j \in CompressorCalls :
        /\ history[i].args.param.provider = FLASHRANK_RERANK
        /\ history[j].args.param.provider = FLASHRANK_RERANK
        /\ history[i].args.param.data # history[j].args.param.data
        /\ Returned(history[i], "FlashrankRerankCompressorFactory")
        /\ Returned(history[j], "FlashrankRerankCompressorFactory")

\* C6: get_callback_handler_factory returns a LangfuseCallbackHandlerFactory
\* for a LangfuseObservabilitySetting and raises
\* GenAIUnknownObservabilityProviderSettingException for every other setting.
C6_CallbackHandlerDispatch ==
    \A i \in CallsOf("get_callback_handler_factory") :
        LET c == history[i]
        IN  IF c.args.setting.cls = "LangfuseObservabilitySetting"
            THEN Returned(c, "LangfuseCallbackHandlerFactory")
            ELSE Raised(c, "GenAIUnknownObservabilityProviderSettingException")

C6_Witness ==
    \E i, j \in CallsOf("get_callback_handler_factory") :
        /\ Returned(history[i], "LangfuseCallbackHandlerFactory")
        /\ history[j].args.setting.cls = "FakeLLMSetting"
        /\ history[j].outcome = "raise"

C8_CreateObservabilityHandler ==
    \A i \in CallsOf("create_observability_callback_handler") :
        LET c == history[i]
            s == c.args.observability_setting
        IN  /\ s = None
                  => /\ Returned(c, "NoneType")
                     /\ c.called = <<>>
                     /\ c.constructed = <<>>
            /\ s.cls = "LangfuseObservabilitySetting"
                  => /\ c.outcome = "return"
                     /\ c.value = MethodResult(
                            [cls |-> "LangfuseCallbackHandlerFactory",
                             kwargs |-> [setting |-> s]],
                            "get_callback_handler",
                            [trace_name |-> c.args.trace_name.value])
            /\ (s # None /\ s.cls # "LangfuseObservabilitySetting")
                  => Raised(c,
                         "GenAIUnknownObservabilityProviderSettingException")

C8_Witness ==
    \E i, j \in CallsOf("create_observability_callback_handler") :
        /\ history[i].args.observability_setting = None
        /\ history[i].outcome = "return"
        /\ history[j].args.observability_setting.cls = "OpenAILLMSetting"
        /\ history[j].outcome = "raise"

C8_WitnessLangfuse ==
    \E i \in CallsOf("create_observability_callback_handler") :
        /\ history[i].args.observability_setting.cls
              = "LangfuseObservabilitySetting"
        /\ history[i].args.trace_name.value = "trace_2"
        /\ history[i].outcome = "return"
        /\ history[i].called = <<"get_callback_handler_factory">>

\* The branches of the dispatchers that test the class of the setting, in the
\* order they are written.
TypeBranches ==
    [get_llm_factory |->
        << <<"OpenAILLMSetting", "OpenAILLMFactory">>,
           <<"AzureOpenAILLMSetting", "AzureOpenAILLMFactory">>,
           <<"FakeLLMSetting", "FakeLLMFactory">> >>,
     get_em_factory |->
        << <<"OpenAIEMSetting", "OpenAIEMFactory">>,
           <<"AzureOpenAIEMSetting", "AzureOpenAIEMFactory">> >>,
     get_callback_handler_factory |->
        << <<"LangfuseObservabilitySetting",
             "LangfuseCallbackHandlerFactory">> >>]

\* The branches of a dispatcher call whose test its input passes, in order.
MatchingBranches(c) ==
    IF c.fn = "get_vector_store_factory"
    THEN IF c.args.vector_store_provider = OPEN_SEARCH
         THEN << <<OPEN_SEARCH, "OpenSearchFactory">> >>
         ELSE <<>>
    ELSE IF c.fn = "get_compressor_factory"
    THEN IF c.args.param # None /\ c.args.param.provider = FLASHRANK_RERANK
         THEN << <<FLASHRANK_RERANK, "FlashrankRerankCompressorFactory">> >>
         ELSE <<>>
    ELSE SelectSeq(TypeBranches[c.fn],
                   LAMBDA b : c.args.setting.cls = b[1])

InfoRecords(c) == SelectSeq(c.logs, LAMBDA l : l.level = "INFO")

\* C9: a dispatcher call invokes at most one adapter constructor and makes one
\* attempt: a call that returns invoked exactly the constructor of the first
\* branch its input matches, a call that raises invoked none, and either way
\* the dispatcher was entered once and called no dispatcher again.
C9_OneConstructorOneAttempt ==
    \A i \in DispatcherCalls :
        LET c == history[i]
        IN  /\ Len(c.constructed) <= 1
            /\ c.outcome = "return"
                  => /\ MatchingBranches(c) # <<>>
                     /\ c.constructed = <<Head(MatchingBranches(c))[2]>>
                     /\ c.value.cls = Head(MatchingBranches(c))[2]
            /\ c.outcome = "raise" => c.constructed = <<>>
            /\ c.called = <<>>
            /\ Len(InfoRecords(c)) = 1

C9_Witness ==
    \E i, j \in DispatcherCalls :
        /\ history[i].fn = "get_llm_factory"
        /\ history[i].constructed = <<"FakeLLMFactory">>
        /\ history[j].fn = "get_compressor_factory"
        /\ Raised(history[j], "CompressorUnknownException")
        /\ history[j].constructed = <<>>

\* C10: a factory a dispatcher returns was built from the argument of the
\* call itself (setting for get_llm_factory, get_em_factory and
\* get_callback_handler_factory, param for get_compressor_factory), and when
\* the call ends its arguments are what they were when it began.
C10_BuiltFromArgumentUnmodified ==
    \A i \in DispatcherCalls :
        LET c == history[i]
        IN  /\ c.env = c.args
            /\ (c.outcome = "return"
                  /\ c.fn \in {"get_llm_factory", "get_em_factory",
                               "get_callback_handler_factory"})
                  => c.value.kwargs = [setting |-> c.args.setting]
            /\ (c.outcome = "return" /\ c.fn = "get_compressor_factory")
                  => c.value.kwargs = [param |-> c.args.param]

C10_Witness ==
    \E i, j \in DispatcherCalls :
        /\ history[i].fn = "get_compressor_factory"
        /\ history[i].outcome = "return"
        /\ history[i].args.param.data = "d2"
        /\ history[j].fn = "get_em_factory"
        /\ history[j].outcome = "return"
        /\ history[j].args.setting.data = "d2"

====
